---- MODULE Spec2Model ----
(***************************************************************************)
(* Users / Projects CRUD service (app/main.py) over a relational store,    *)
(* and the store bootstrap (app/database.py).                              *)
(*                                                                         *)
(* Three specifications share the store (users, projects, fk_enforced):    *)
(*   Spec        requests run to completion one after another;             *)
(*   SpecConc    two requests, each in its own session, interleaved at     *)
(*               the boundaries of their store round trips;                *)
(*   SpecStartup the module-level connection retry loop and the lifespan.  *)
(***************************************************************************)
EXTENDS Integers, FiniteSets, Sequences, TLC

\* ------------------------------------------------------------------ bounds
MaxUserId == 2
MaxProjectId == 1

UserIds == 1..MaxUserId
ProjectIds == 1..MaxProjectId

\* column values the requests may carry
Names == {"Ann"}
Emails == {"a@x.com", "b@x.com"}
StudentIds == {"S1", "S2"}
ProjectNames == {"P", "Q"}
NULL == "NULL"
Descriptions == {NULL}

\* a key that is not in a PATCH map
ABSENT == "ABSENT"
NOID == 0

VARIABLES
    users,          \* rows of table users: [id, name, email, student_id]
    projects,       \* rows of table projects: [id, name, description, owner_id]
    fk_enforced,    \* whether the store checks projects.owner_id -> users.id
    last,           \* the last response of a sequential request
    reqs,           \* SpecConc: the two requests in flight
    sessions,       \* SpecConc: session id -> "open" | "closed"
    boot            \* SpecStartup: state of the bootstrap

vars == <<users, projects, fk_enforced, last, reqs, sessions, boot>>

\* ------------------------------------------------------------ the store
UserRows == [id : UserIds, name : Names, email : Emails, student_id : StudentIds]
ProjectRows == [id : ProjectIds, name : ProjectNames, description : Descriptions,
                owner_id : UserIds]

\* db.get(UserDB, id) / db.get(ProjectDB, id): the row, if any
UserExists(U, id) == \E u \in U : u.id = id
ProjectExists(P, id) == \E p \in P : p.id = id
GetUser(U, id) == CHOOSE u \in U : u.id = id
GetProject(P, id) == CHOOSE p \in P : p.id = id

\* primary key and the two unique columns of users
UsersUnique(U) ==
    \A u1, u2 \in U :
        (u1.id = u2.id \/ u1.email = u2.email \/ u1.student_id = u2.student_id)
            => u1 = u2

ProjectsUnique(P) == \A p1, p2 \in P : p1.id = p2.id => p1 = p2

\* the foreign key projects.owner_id -> users.id, where the store checks it
ForeignKeyOk(U, P) == \A p \in P : UserExists(U, p.owner_id)

\* generated surrogate keys: the next row id
SetMax(S) == IF S = {} THEN 0 ELSE CHOOSE m \in S : \A x \in S : x <= m
NextUserId(U) == SetMax({u.id : u \in U}) + 1
NextProjectId(P) == SetMax({p.id : p \in P}) + 1

\* ---------------------------------------------------------- request bodies
\* UserCreate: name, email, student_id
UserCreate == [name : Names, email : Emails, student_id : StudentIds]
\* ProjectCreate: name, description, owner_id; ProjectCreateForUser: no owner_id
ProjectCreate == [name : ProjectNames, description : Descriptions, owner_id : UserIds]
ProjectCreateForUser == [name : ProjectNames, description : Descriptions]

\* PATCH bodies are free-form maps.  A map is a record with one field per key
\* it may carry; ABSENT / NOID marks a key that is not in the map, and
\* unknown says whether the map carries a key that names no attribute.
\* Maps of at most two keys are drawn.
KeyCount(m, idkeys, strkeys) ==
    Cardinality({k \in idkeys : m[k] # NOID})
        + Cardinality({k \in strkeys : m[k] # ABSENT})
        + (IF m.unknown THEN 1 ELSE 0)

\* a map for PATCH /api/users: never empty
UserPatch ==
    { m \in [id : UserIds \cup {NOID}, name : Names \cup {ABSENT},
             email : Emails \cup {ABSENT}, student_id : StudentIds \cup {ABSENT},
             unknown : BOOLEAN] :
        KeyCount(m, {"id"}, {"name", "email", "student_id"}) \in {1, 2} }

\* a map for PATCH /api/projects
ProjectPatch ==
    { m \in [id : ProjectIds \cup {NOID}, name : ProjectNames \cup {ABSENT},
             description : Descriptions \cup {ABSENT},
             owner_id : UserIds \cup {NOID}, unknown : BOOLEAN] :
        KeyCount(m, {"id", "owner_id"}, {"name", "description"}) \in {0, 1, 2} }

Response(op, status, detail, rows) ==
    [op |-> op, status |-> status, detail |-> detail, rows |-> rows]

\* ------------------------------------------------- requests run one by one
\* Query.update() of patch_user / update_user: the row with the map's keys set
ApplyUserValues(u, m) ==
    [id |-> IF m.id # NOID THEN m.id ELSE u.id,
     name |-> IF m.name # ABSENT THEN m.name ELSE u.name,
     email |-> IF m.email # ABSENT THEN m.email ELSE u.email,
     student_id |-> IF m.student_id # ABSENT THEN m.student_id ELSE u.student_id]

\* the setattr loop of patch_project: only keys for which hasattr(proj, key)
ApplyProjectValues(p, m) ==
    [id |-> IF m.id # NOID THEN m.id ELSE p.id,
     name |-> IF m.name # ABSENT THEN m.name ELSE p.name,
     description |-> IF m.description # ABSENT THEN m.description ELSE p.description,
     owner_id |-> IF m.owner_id # NOID THEN m.owner_id ELSE p.owner_id]

\* updated_user.model_dump(): every field of UserCreate, and nothing else
UserDump(payload) ==
    [id |-> NOID, name |-> payload.name, email |-> payload.email,
     student_id |-> payload.student_id, unknown |-> FALSE]

\* project.model_dump(): every field of ProjectCreate
ProjectDump(payload) ==
    [id |-> NOID, name |-> payload.name, description |-> payload.description,
     owner_id |-> payload.owner_id, unknown |-> FALSE]

\* select(ProjectDB).where(ProjectDB.owner_id == user_id)
get_user_projects(user_id) == {p \in projects : p.owner_id = user_id}

\* POST /api/users with the IntegrityError of db.commit() left uncaught
add_user_uncaught(payload) ==
    LET user == [id |-> NextUserId(users), name |-> payload.name,
                 email |-> payload.email, student_id |-> payload.student_id]
    IN  /\ IF UsersUnique(users \cup {user})
           THEN /\ user.id <= MaxUserId
                /\ users' = users \cup {user}
                /\ last' = Response("add_user", 201, "", 1)
           ELSE /\ users' = users
                /\ last' = Response("add_user", 500, "IntegrityError", 0)
        /\ UNCHANGED <<projects, fk_enforced, reqs, sessions, boot>>

\* POST /api/users
add_user(payload) ==
    LET user == [id |-> NextUserId(users), name |-> payload.name,
                 email |-> payload.email, student_id |-> payload.student_id]
    IN  /\ IF UsersUnique(users \cup {user})
           THEN \* db.commit() inserts the row, db.refresh() reads its id
                /\ user.id <= MaxUserId
                /\ users' = users \cup {user}
                /\ last' = Response("add_user", 201, "", 1)
           ELSE \* IntegrityError: db.rollback(), then 409
                /\ users' = users
                /\ last' = Response("add_user", 409, "User already exists", 0)
        /\ UNCHANGED <<projects, fk_enforced, reqs, sessions, boot>>

\* DELETE /api/users/{user_id} without the cascade on User.projects
delete_user_nocascade(user_id) ==
    /\ IF ~UserExists(users, user_id)
       THEN /\ last' = Response("delete_user", 404, "User not found", 0)
            /\ UNCHANGED <<users, projects>>
       ELSE /\ users' = users \ {GetUser(users, user_id)}
            /\ projects' = projects
            /\ last' = Response("delete_user", 204, "", 1)
    /\ UNCHANGED <<fk_enforced, reqs, sessions, boot>>

\* DELETE /api/users/{user_id}
delete_user(user_id) ==
    /\ IF ~UserExists(users, user_id)
       THEN /\ last' = Response("delete_user", 404, "User not found", 0)
            /\ UNCHANGED <<users, projects>>
       ELSE \* db.delete(user) cascades to user.projects; db.commit()
            /\ users' = users \ {GetUser(users, user_id)}
            /\ projects' = projects \ get_user_projects(user_id)
            /\ last' = Response("delete_user", 204, "",
                                1 + Cardinality(get_user_projects(user_id)))
    /\ UNCHANGED <<fk_enforced, reqs, sessions, boot>>

\* The bulk UPDATE of update_user and patch_user (Query.update runs the
\* statement at once, before commit_or_rollback): what it does to the store
\* and how the handler answers.
UserBulkUpdate(op, user_id, m) ==
    IF m.unknown
    THEN \* a key that is no column of users: the statement does not compile
         /\ last' = Response(op, 500, "CompileError", 0)
         /\ UNCHANGED <<users, projects>>
    ELSE IF ~UserExists(users, user_id)
    THEN \* no row matched
         /\ last' = Response(op, 404, "User not found", 0)
         /\ UNCHANGED <<users, projects>>
    ELSE LET u == GetUser(users, user_id)
             new == ApplyUserValues(u, m)
             U2 == (users \ {u}) \cup {new}
         IN  IF \/ ~UsersUnique(U2) \/ Cardinality(U2) # Cardinality(users)
                \/ (fk_enforced /\ ~ForeignKeyOk(U2, projects))
             THEN \* IntegrityError raised by the UPDATE itself, outside the
                  \* try of commit_or_rollback; the session is closed
                  \* without a commit
                  /\ last' = Response(op, 500, "IntegrityError", 0)
                  /\ UNCHANGED <<users, projects>>
             ELSE \* commit_or_rollback: the commit has nothing left to
                  \* reject; then db.get(UserDB, user_id)
                  /\ users' = U2
                  /\ UNCHANGED projects
                  /\ last' = IF new.id = user_id
                             THEN Response(op, 200, "", 1)
                             ELSE Response(op, 500, "ResponseValidationError", 1)

\* PUT /api/users/{user_id}
update_user(user_id, updated_user) ==
    /\ UserBulkUpdate("update_user", user_id, UserDump(updated_user))
    /\ UNCHANGED <<fk_enforced, reqs, sessions, boot>>

\* PATCH /api/users/{user_id}
patch_user(user_id, partial_user) ==
    /\ UserBulkUpdate("patch_user", user_id, partial_user)
    /\ UNCHANGED <<fk_enforced, reqs, sessions, boot>>

\* db.add(proj); commit_or_rollback; db.refresh(proj): shared by the two
\* project-creating handlers once the owner was found
InsertProject(op, name, description, owner_id) ==
    LET proj == [id |-> NextProjectId(projects), name |-> name,
                 description |-> description, owner_id |-> owner_id]
    IN  /\ proj.id <= MaxProjectId
        /\ projects' = projects \cup {proj}
        /\ last' = Response(op, 201, "", 1)

\* POST /api/projects without the lookup of the owner
create_project_nocheck(project) ==
    /\ InsertProject("create_project", project.name, project.description,
                     project.owner_id)
    /\ UNCHANGED <<users, fk_enforced, reqs, sessions, boot>>

\* POST /api/projects
create_project(project) ==
    /\ IF ~UserExists(users, project.owner_id)
       THEN /\ last' = Response("create_project", 404, "User not found", 0)
            /\ UNCHANGED projects
       ELSE InsertProject("create_project", project.name, project.description,
                          project.owner_id)
    /\ UNCHANGED <<users, fk_enforced, reqs, sessions, boot>>

\* POST /api/users/{user_id}/projects
create_user_project(user_id, project) ==
    /\ IF ~UserExists(users, user_id)
       THEN /\ last' = Response("create_user_project", 404, "User not found", 0)
            /\ UNCHANGED projects
       ELSE InsertProject("create_user_project", project.name,
                          project.description, user_id)
    /\ UNCHANGED <<users, fk_enforced, reqs, sessions, boot>>

\* the flush of a changed project row inside commit_or_rollback
FlushProject(op, proj, new, conflict_msg) ==
    LET P2 == (projects \ {proj}) \cup {new}
    IN  IF \/ ~ProjectsUnique(P2) \/ Cardinality(P2) # Cardinality(projects)
           \/ (fk_enforced /\ ~ForeignKeyOk(users, P2))
        THEN \* IntegrityError: db.rollback(), then 409
             /\ last' = Response(op, 409, conflict_msg, 0)
             /\ UNCHANGED projects
        ELSE /\ projects' = P2
             /\ last' = Response(op, 200, "", IF new = proj THEN 0 ELSE 1)

\* PUT /api/projects/{project_id}
update_project(project_id, project) ==
    /\ IF ~ProjectExists(projects, project_id)
       THEN /\ last' = Response("update_project", 404, "Project not found", 0)
            /\ UNCHANGED projects
       ELSE IF ~UserExists(users, project.owner_id)
       THEN /\ last' = Response("update_project", 404, "Owner user not found", 0)
            /\ UNCHANGED projects
       ELSE LET proj == GetProject(projects, project_id)
            IN  FlushProject("update_project", proj,
                             ApplyProjectValues(proj, ProjectDump(project)),
                             "Project update failed")
    /\ UNCHANGED <<users, fk_enforced, reqs, sessions, boot>>

\* PATCH /api/projects/{project_id}
patch_project(project_id, partial_project) ==
    /\ IF ~ProjectExists(projects, project_id)
       THEN /\ last' = Response("patch_project", 404, "Project not found", 0)
            /\ UNCHANGED projects
       ELSE IF /\ partial_project.owner_id # NOID
               /\ ~UserExists(users, partial_project.owner_id)
       THEN /\ last' = Response("patch_project", 404, "Owner user not found", 0)
            /\ UNCHANGED projects
       ELSE LET proj == GetProject(projects, project_id)
            IN  FlushProject("patch_project", proj,
                             ApplyProjectValues(proj, partial_project),
                             "Project partial update failed")
    /\ UNCHANGED <<users, fk_enforced, reqs, sessions, boot>>

\* ------------------------------------------------------------ Spec
Requests == {1, 2}
NoBody == [none |-> TRUE]
NoRow == [id |-> NOID]
Request(op, user_id, project_id, body) ==
    [op |-> op, pc |-> "start", db |-> NOID, status |-> 0, user_id |-> user_id,
     project_id |-> project_id, body |-> body, loaded |-> NoRow, made |-> NOID]
NoRequests == [r \in Requests |-> Request("none", NOID, NOID, NoBody)]
NoSessions == <<>>
\* the bootstrap is over: the store was reached and requests are accepted
Serving == [pc |-> "serving", attempts |-> 1, failures |-> 0, sleeps |-> 0,
            reached |-> TRUE, store_up |-> TRUE, SessionLocal |-> TRUE]

Init ==
    /\ users = {}
    /\ projects = {}
    /\ fk_enforced \in BOOLEAN
    /\ last = Response("none", 0, "", 0)
    /\ reqs = NoRequests
    /\ sessions = NoSessions
    /\ boot = Serving

Next ==
    \/ \E payload \in UserCreate : add_user(payload)
    \/ \E user_id \in UserIds : delete_user(user_id)
    \/ \E user_id \in UserIds, payload \in UserCreate : update_user(user_id, payload)
    \/ \E user_id \in UserIds, m \in UserPatch : patch_user(user_id, m)
    \/ \E project \in ProjectCreate : create_project(project)
    \/ \E user_id \in UserIds, project \in ProjectCreateForUser :
            create_user_project(user_id, project)
    \/ \E project_id \in ProjectIds, project \in ProjectCreate :
            update_project(project_id, project)
    \/ \E project_id \in ProjectIds, m \in ProjectPatch :
            patch_project(project_id, m)

Spec == Init /\ [][Next]_vars

\* ================================================= properties under Spec

\* C1: after any sequence of requests, each run to completion, every stored
\* project's owner_id is the id of a stored user.
NoOrphanedProjects == \A p \in projects : UserExists(users, p.owner_id)

\* POST /api/users collides with a stored user on email or student_id
DuplicateKey(payload) ==
    \E u \in users : u.email = payload.email \/ u.student_id = payload.student_id

\* C2: POST /api/users with the email or the student_id of a stored user
\* yields 409 and leaves every stored row as it was.
DuplicateUserRejected ==
    [][last'.op = "add_user" =>
          \A payload \in UserCreate :
              (DuplicateKey(payload) /\ add_user(payload))
                  => /\ last'.status = 409
                     /\ users' = users
                     /\ projects' = projects]_vars

\* a duplicate POST /api/users was answered while a user is stored
DuplicateUserSeen ==
    last.op = "add_user" /\ last.status = 409 /\ users # {}

\* the map's email or student_id is that of another stored user
CollidesWithOther(user_id, m) ==
    \E other \in users :
        /\ other.id # user_id
        /\ other.email = m.email \/ other.student_id = m.student_id

\* C4: PUT or PATCH /api/users/{id} on a stored user with the email or the
\* student_id of a different stored user yields 409, and the stored users are
\* unchanged.
UserUpdateConflictIs409 ==
    [][/\ \A user_id \in UserIds, payload \in UserCreate :
            (/\ update_user(user_id, payload)
             /\ UserExists(users, user_id)
             /\ CollidesWithOther(user_id, payload))
                => (last'.status = 409 /\ users' = users)
       /\ \A user_id \in UserIds, m \in UserPatch :
            (/\ patch_user(user_id, m)
             /\ UserExists(users, user_id)
             /\ ~m.unknown
             /\ CollidesWithOther(user_id, m))
                => (last'.status = 409 /\ users' = users)]_vars

\* C5: DELETE /api/users/{id}: 404 and an unchanged store when no such user
\* is stored; otherwise 204, the user and exactly the projects it owns are
\* removed, everything else stays, and the user's project list is empty.
DeleteUserCascades ==
    [][last'.op = "delete_user" =>
          \A user_id \in UserIds :
              delete_user(user_id) =>
                  IF ~UserExists(users, user_id)
                  THEN /\ last'.status = 404
                       /\ users' = users
                       /\ projects' = projects
                  ELSE /\ last'.status = 204
                       /\ users' = {u \in users : u.id # user_id}
                       /\ projects' = {p \in projects : p.owner_id # user_id}
                       /\ {p \in projects' : p.owner_id = user_id} = {}]_vars

\* a delete that removed the user together with at least one project
CascadeSeen ==
    last.op = "delete_user" /\ last.status = 204 /\ last.rows > 1

\* C6: creating a project for an owner id that matches no stored user, by
\* either route, yields 404 and stores no project.
UnknownOwnerRejected ==
    [][/\ last'.op = "create_project" =>
            \A project \in ProjectCreate :
                (~UserExists(users, project.owner_id) /\ create_project(project))
                    => (last'.status = 404 /\ projects' = projects)
       /\ last'.op = "create_user_project" =>
            \A user_id \in UserIds, project \in ProjectCreateForUser :
                (~UserExists(users, user_id) /\ create_user_project(user_id, project))
                    => (last'.status = 404 /\ projects' = projects)]_vars

\* a project for an unknown owner was refused while other users are stored
UnknownOwnerSeen ==
    last.op = "create_project" /\ last.status = 404 /\ users # {}

\* the PATCH map without the key that names no attribute
KnownKeys(m) == [m EXCEPT !.unknown = FALSE]

\* C7: a successful PATCH changes exactly the fields whose keys are in the
\* map, in the target row only; a key that names no attribute is ignored and
\* does not make the request fail: the request ends as it does without it.
PatchAppliesPresentKeysOnly ==
    [][/\ \A project_id \in ProjectIds, m \in ProjectPatch :
            patch_project(project_id, m) =>
                /\ last'.status = 200 =>
                     /\ projects' = (projects \ {GetProject(projects, project_id)})
                           \cup {ApplyProjectValues(GetProject(projects, project_id), m)}
                     /\ users' = users
                /\ m.unknown => patch_project(project_id, KnownKeys(m))
       /\ \A user_id \in UserIds, m \in UserPatch :
            patch_user(user_id, m) =>
                /\ last'.status = 200 =>
                     /\ users' = (users \ {GetUser(users, user_id)})
                           \cup {ApplyUserValues(GetUser(users, user_id), m)}
                     /\ projects' = projects
                /\ (/\ m.unknown
                    /\ KnownKeys(m) \in UserPatch
                    /\ UserExists(users, user_id))
                        => patch_user(user_id, KnownKeys(m))]_vars

\* ======================================================== SpecStartup
\* app/database.py runs at import: the retry loop, then sessionmaker; the
\* lifespan of app/main.py then creates the tables and requests are accepted.
\* boot.store_up is the environment: whether the store answers right now.

\* DB_RETRIES, by default
RETRIES == 10

StartupIdle == fk_enforced = FALSE /\ users = {} /\ projects = {}
                /\ last = Response("none", 0, "", 0)
                /\ reqs = NoRequests /\ sessions = NoSessions

InitStartup ==
    /\ StartupIdle
    /\ \E up \in BOOLEAN :
          boot = [pc |-> "loop", attempts |-> 0, failures |-> 0, sleeps |-> 0,
                  reached |-> FALSE, store_up |-> up, SessionLocal |-> FALSE]

\* the bootstrap touches neither the tables nor any request
BootOnly == UNCHANGED <<users, projects, fk_enforced, last, reqs, sessions>>

\* the store starts or stops answering while the process is starting
StoreFlips ==
    /\ boot.pc \in {"loop", "sleep", "sessionmaker", "lifespan"}
    /\ boot' = [boot EXCEPT !.store_up = ~boot.store_up]
    /\ BootOnly

\* one pass of the body of `for _ in range(RETRIES)`: create_engine and
\* engine.connect(); break on success, except OperationalError otherwise
ConnectAttempt ==
    /\ boot.pc = "loop"
    /\ boot.attempts < RETRIES
    /\ boot' = IF boot.store_up
               THEN [boot EXCEPT !.attempts = @ + 1, !.reached = TRUE,
                                 !.pc = "sessionmaker"]
               ELSE [boot EXCEPT !.attempts = @ + 1, !.failures = @ + 1,
                                 !.pc = "sleep"]
    /\ BootOnly

\* time.sleep(DELAY) in the except clause
RetrySleep ==
    /\ boot.pc = "sleep"
    /\ boot' = [boot EXCEPT !.sleeps = @ + 1, !.pc = "loop"]
    /\ BootOnly

\* range(RETRIES) is used up: the for statement ends and the module goes on
LoopExhausted ==
    /\ boot.pc = "loop"
    /\ boot.attempts = RETRIES
    /\ boot' = [boot EXCEPT !.pc = "sessionmaker"]
    /\ BootOnly

\* SessionLocal = sessionmaker(bind=engine, ...)
MakeSessionLocal ==
    /\ boot.pc = "sessionmaker"
    /\ boot' = [boot EXCEPT !.SessionLocal = TRUE, !.pc = "lifespan"]
    /\ BootOnly

\* lifespan: Base.metadata.create_all(bind=engine), then yield
Lifespan ==
    /\ boot.pc = "lifespan"
    /\ boot' = IF boot.store_up
               THEN [boot EXCEPT !.pc = "serving"]
               ELSE [boot EXCEPT !.pc = "aborted"]
    /\ BootOnly

NextStartup ==
    \/ StoreFlips
    \/ ConnectAttempt
    \/ RetrySleep
    \/ LoopExhausted
    \/ MakeSessionLocal
    \/ Lifespan

SpecStartup == InitStartup /\ [][NextStartup]_vars

\* C3: when every one of the RETRIES connection attempts failed, startup
\* aborts: the session factory is never built and no request is accepted.
\* The connection is attempted at most RETRIES times, each failed attempt is
\* followed by the delay, and no attempt follows a success.
StartupAbortsWhenRetriesExhausted ==
    /\ boot.failures = RETRIES => (~boot.SessionLocal /\ boot.pc # "serving")
    /\ boot.attempts <= RETRIES
    /\ boot.sleeps = IF boot.pc = "sleep" THEN boot.failures - 1 ELSE boot.failures
    /\ boot.reached => boot.attempts = boot.failures + 1

\* =========================================================== SpecConc
\* Two requests run at the same time, each handler in its own worker thread
\* with the session get_db hands it.  A step is one round trip to the store
\* (a SELECT, or the flush and COMMIT of db.commit(), which the store applies
\* as one transaction), or a step that touches the session only.

\* rows stored before the two requests arrive
Ann1 == [id |-> 1, name |-> "Ann", email |-> "a@x.com", student_id |-> "S1"]
Ann2 == [id |-> 2, name |-> "Ann", email |-> "b@x.com", student_id |-> "S2"]
P1 == [id |-> 1, name |-> "P", description |-> NULL, owner_id |-> 1]
ConcStores ==
    { <<{}, {}>>, <<{Ann1}, {}>>, <<{Ann1}, {P1}>>,
      <<{Ann1, Ann2}, {}>>, <<{Ann1, Ann2}, {P1}>> }

\* the requests drawn: every handler that writes, with bodies named "Q"
ConcProjectCreate == {b \in ProjectCreate : b.name = "Q"}
ConcProjectCreateForUser == {b \in ProjectCreateForUser : b.name = "Q"}
ConcProjectPatch ==
    {m \in ProjectPatch :
        /\ m.id = NOID /\ m.description = ABSENT /\ ~m.unknown
        /\ (m.name = "Q" /\ m.owner_id = NOID) \/ (m.name = ABSENT /\ m.owner_id # NOID)}
ConcRequests ==
    {Request("add_user", NOID, NOID, b) : b \in UserCreate}
    \cup {Request("delete_user", id, NOID, NoBody) : id \in UserIds}
    \cup {Request("create_project", NOID, NOID, b) : b \in ConcProjectCreate}
    \cup {Request("create_user_project", id, NOID, b) :
            id \in UserIds, b \in ConcProjectCreateForUser}
    \cup {Request("update_project", NOID, pid, b) :
            pid \in ProjectIds, b \in ConcProjectCreate}
    \cup {Request("patch_project", NOID, pid, m) :
            pid \in ProjectIds, m \in ConcProjectPatch}

InitConc ==
    /\ \E st \in ConcStores : users = st[1] /\ projects = st[2]
    /\ fk_enforced \in BOOLEAN
    /\ reqs \in [Requests -> ConcRequests]
    /\ sessions = NoSessions
    /\ last = Response("none", 0, "", 0)
    /\ boot = Serving

\* where a handler starts once Depends(get_db) has given it its session
FirstPc(op) ==
    CASE op = "add_user" -> "add"
      [] op \in {"create_project", "create_user_project"} -> "get_owner"
      [] op \in {"update_project", "patch_project"} -> "get_project"
      [] op = "delete_user" -> "get_user"

\* get_db up to its yield: db = SessionLocal(), a session of its own
get_db_open(r) ==
    /\ reqs[r].pc = "start"
    /\ sessions' = Append(sessions, "open")
    /\ reqs' = [reqs EXCEPT ![r].db = Len(sessions) + 1,
                            ![r].pc = FirstPc(reqs[r].op)]
    /\ UNCHANGED <<users, projects, fk_enforced, last, boot>>

\* get_db that closes the session only after a handler that returned
get_db_close_on_return(r) ==
    /\ reqs[r].pc = "close"
    /\ sessions' = IF reqs[r].status < 400
                   THEN [sessions EXCEPT ![reqs[r].db] = "closed"]
                   ELSE sessions
    /\ reqs' = [reqs EXCEPT ![r].pc = "done"]
    /\ UNCHANGED <<users, projects, fk_enforced, last, boot>>

\* get_db after its yield: finally db.close(), however the handler ended
get_db_close(r) ==
    /\ reqs[r].pc = "close"
    /\ sessions' = [sessions EXCEPT ![reqs[r].db] = "closed"]
    /\ reqs' = [reqs EXCEPT ![r].pc = "done"]
    /\ UNCHANGED <<users, projects, fk_enforced, last, boot>>

\* add_user: user = UserDB(**payload.model_dump()); db.add(user)
add_user_add(r) ==
    /\ reqs[r].op = "add_user" /\ reqs[r].pc = "add"
    /\ reqs' = [reqs EXCEPT ![r].pc = "commit"]
    /\ UNCHANGED <<users, projects, fk_enforced, last, sessions, boot>>

\* add_user: db.commit() and db.refresh(user)
add_user_commit(r) ==
    LET b == reqs[r].body
        user == [id |-> NextUserId(users), name |-> b.name, email |-> b.email,
                 student_id |-> b.student_id]
    IN  /\ reqs[r].op = "add_user" /\ reqs[r].pc = "commit"
        /\ IF UsersUnique(users \cup {user})
           THEN /\ users' = users \cup {user}
                /\ reqs' = [reqs EXCEPT ![r].status = 201, ![r].made = user.id,
                                        ![r].pc = "close"]
           ELSE \* IntegrityError
                /\ users' = users
                /\ reqs' = [reqs EXCEPT ![r].pc = "rollback"]
        /\ UNCHANGED <<projects, fk_enforced, last, sessions, boot>>

\* add_user with an except clause that rolls back and then returns the user
add_user_rollback_swallowed(r) ==
    /\ reqs[r].op = "add_user" /\ reqs[r].pc = "rollback"
    /\ reqs' = [reqs EXCEPT ![r].status = 201, ![r].pc = "close"]
    /\ UNCHANGED <<users, projects, fk_enforced, last, sessions, boot>>

\* add_user: except IntegrityError: db.rollback(); raise 409
add_user_rollback(r) ==
    /\ reqs[r].op = "add_user" /\ reqs[r].pc = "rollback"
    /\ reqs' = [reqs EXCEPT ![r].status = 409, ![r].pc = "close"]
    /\ UNCHANGED <<users, projects, fk_enforced, last, sessions, boot>>

\* the owner a project-creating request names: body or path
OwnerOf(q) == IF q.op = "create_project" THEN q.body.owner_id ELSE q.user_id

\* create_project / create_user_project: db.get(UserDB, owner), 404 if none
create_project_get_owner(r) ==
    /\ reqs[r].op \in {"create_project", "create_user_project"}
    /\ reqs[r].pc = "get_owner"
    /\ reqs' = IF UserExists(users, OwnerOf(reqs[r]))
               THEN [reqs EXCEPT ![r].pc = "commit"]
               ELSE [reqs EXCEPT ![r].status = 404, ![r].pc = "close"]
    /\ UNCHANGED <<users, projects, fk_enforced, last, sessions, boot>>

\* create_project / create_user_project: db.add(proj) and the db.commit()
\* of commit_or_rollback, then db.refresh(proj)
create_project_commit(r) ==
    LET q == reqs[r]
        proj == [id |-> NextProjectId(projects), name |-> q.body.name,
                 description |-> q.body.description, owner_id |-> OwnerOf(q)]
    IN  /\ q.op \in {"create_project", "create_user_project"}
        /\ q.pc = "commit"
        /\ IF fk_enforced /\ ~UserExists(users, proj.owner_id)
           THEN \* IntegrityError
                /\ projects' = projects
                /\ reqs' = [reqs EXCEPT ![r].pc = "rollback"]
           ELSE /\ projects' = projects \cup {proj}
                /\ reqs' = [reqs EXCEPT ![r].status = 201, ![r].made = proj.id,
                                        ![r].pc = "close"]
        /\ UNCHANGED <<users, fk_enforced, last, sessions, boot>>

\* commit_or_rollback: except IntegrityError: db.rollback(); raise 409
commit_or_rollback_conflict(r) ==
    /\ reqs[r].op \in {"create_project", "create_user_project",
                       "update_project", "patch_project"}
    /\ reqs[r].pc = "rollback"
    /\ reqs' = [reqs EXCEPT ![r].status = 409, ![r].pc = "close"]
    /\ UNCHANGED <<users, projects, fk_enforced, last, sessions, boot>>

\* the values update_project / patch_project set on the loaded project
ProjectValues(q) ==
    IF q.op = "update_project" THEN ProjectDump(q.body) ELSE q.body

\* update_project / patch_project: db.get(ProjectDB, project_id), 404 if none
update_project_get(r) ==
    /\ reqs[r].op \in {"update_project", "patch_project"}
    /\ reqs[r].pc = "get_project"
    /\ reqs' =
         IF ~ProjectExists(projects, reqs[r].project_id)
         THEN [reqs EXCEPT ![r].status = 404, ![r].pc = "close"]
         ELSE [reqs EXCEPT
                 ![r].loaded = GetProject(projects, reqs[r].project_id),
                 ![r].pc = IF ProjectValues(reqs[r]).owner_id # NOID
                           THEN "get_owner" ELSE "commit"]
    /\ UNCHANGED <<users, projects, fk_enforced, last, sessions, boot>>

\* update_project / patch_project: db.get(UserDB, owner_id), 404 if none
update_project_get_owner(r) ==
    /\ reqs[r].op \in {"update_project", "patch_project"}
    /\ reqs[r].pc = "get_owner"
    /\ reqs' = IF UserExists(users, ProjectValues(reqs[r]).owner_id)
               THEN [reqs EXCEPT ![r].pc = "commit"]
               ELSE [reqs EXCEPT ![r].status = 404, ![r].pc = "close"]
    /\ UNCHANGED <<users, projects, fk_enforced, last, sessions, boot>>

\* update_project / patch_project: the setattr loop, the db.commit() of
\* commit_or_rollback and db.refresh(proj).  The flush writes the columns
\* whose value differs from the loaded one, to the row with the loaded id.
update_project_commit(r) ==
    LET q == reqs[r]
        target == ApplyProjectValues(q.loaded, ProjectValues(q))
    IN  /\ q.op \in {"update_project", "patch_project"}
        /\ q.pc = "commit"
        /\ IF ~ProjectExists(projects, q.loaded.id)
           THEN \* the row is gone: StaleDataError from the flush, or
                \* InvalidRequestError from the refresh; neither is caught
                /\ projects' = projects
                /\ reqs' = [reqs EXCEPT ![r].status = 500, ![r].pc = "close"]
           ELSE LET cur == GetProject(projects, q.loaded.id)
                    new == [id |-> IF target.id # q.loaded.id
                                   THEN target.id ELSE cur.id,
                            name |-> IF target.name # q.loaded.name
                                     THEN target.name ELSE cur.name,
                            description |->
                                IF target.description # q.loaded.description
                                THEN target.description ELSE cur.description,
                            owner_id |-> IF target.owner_id # q.loaded.owner_id
                                         THEN target.owner_id ELSE cur.owner_id]
                    P2 == (projects \ {cur}) \cup {new}
                IN  IF \/ ~ProjectsUnique(P2)
                       \/ Cardinality(P2) # Cardinality(projects)
                       \/ /\ fk_enforced
                          /\ target.owner_id # q.loaded.owner_id
                          /\ ~UserExists(users, new.owner_id)
                    THEN \* IntegrityError
                         /\ projects' = projects
                         /\ reqs' = [reqs EXCEPT ![r].pc = "rollback"]
                    ELSE /\ projects' = P2
                         /\ reqs' = [reqs EXCEPT ![r].status = 200,
                                                 ![r].pc = "close"]
        /\ UNCHANGED <<users, fk_enforced, last, sessions, boot>>

\* delete_user: db.get(UserDB, user_id), 404 if none
delete_user_get(r) ==
    /\ reqs[r].op = "delete_user" /\ reqs[r].pc = "get_user"
    /\ reqs' = IF UserExists(users, reqs[r].user_id)
               THEN [reqs EXCEPT ![r].pc = "commit"]
               ELSE [reqs EXCEPT ![r].status = 404, ![r].pc = "close"]
    /\ UNCHANGED <<users, projects, fk_enforced, last, sessions, boot>>

\* delete_user: db.delete(user); db.commit(): the flush loads user.projects,
\* deletes them and the user
delete_user_commit(r) ==
    /\ reqs[r].op = "delete_user" /\ reqs[r].pc = "commit"
    /\ users' = {u \in users : u.id # reqs[r].user_id}
    /\ projects' = {p \in projects : p.owner_id # reqs[r].user_id}
    /\ reqs' = [reqs EXCEPT ![r].status = 204, ![r].pc = "close"]
    /\ UNCHANGED <<fk_enforced, last, sessions, boot>>

NextConc ==
    \/ \E r \in Requests : get_db_open(r)
    \/ \E r \in Requests : get_db_close(r)
    \/ \E r \in Requests : add_user_add(r)
    \/ \E r \in Requests : add_user_commit(r)
    \/ \E r \in Requests : add_user_rollback(r)
    \/ \E r \in Requests : create_project_get_owner(r)
    \/ \E r \in Requests : create_project_commit(r)
    \/ \E r \in Requests : commit_or_rollback_conflict(r)
    \/ \E r \in Requests : update_project_get(r)
    \/ \E r \in Requests : update_project_get_owner(r)
    \/ \E r \in Requests : update_project_commit(r)
    \/ \E r \in Requests : delete_user_get(r)
    \/ \E r \in Requests : delete_user_commit(r)

SpecConc == InitConc /\ [][NextConc]_vars

\* ============================================== properties under SpecConc

\* both requests are POST /api/users with the same email or student_id
SameKeyCreates ==
    /\ \A r \in Requests : reqs[r].op = "add_user"
    /\ \/ reqs[1].body.email = reqs[2].body.email
       \/ reqs[1].body.student_id = reqs[2].body.student_id

BothDone == \A r \in Requests : reqs[r].pc = "done"

\* the users stored before the two requests arrived
StoredBefore == {u \in users : \A r \in Requests : u.id # reqs[r].made}

\* the stored users that hold a key the two requests share
WithSharedKey ==
    {u \in users :
        \/ /\ reqs[1].body.email = reqs[2].body.email
           /\ u.email = reqs[1].body.email
        \/ /\ reqs[1].body.student_id = reqs[2].body.student_id
           /\ u.student_id = reqs[1].body.student_id}

OneCreatedOneConflict ==
    /\ {reqs[r].status : r \in Requests} = {201, 409}
    /\ Cardinality(WithSharedKey) = 1

\* C8 as stated: two concurrent POST /api/users with the same email or
\* student_id end with exactly one 201 and one 409, and one user stored
\* with that key.
ConcurrentCreatesOneWins ==
    (SameKeyCreates /\ BothDone) => OneCreatedOneConflict

\* request r's email or student_id is held by a user stored beforehand
TakenBefore(r) ==
    \E u \in StoredBefore :
        u.email = reqs[r].body.email \/ u.student_id = reqs[r].body.student_id

\* C8 amended: the same, when at least one of the two requests carries an
\* email and a student_id that no user stored beforehand holds.
ConcurrentFreshCreatesOneWins ==
    (SameKeyCreates /\ BothDone /\ \E r \in Requests : ~TakenBefore(r))
        => OneCreatedOneConflict

\* two same-key creates, both free of earlier users, have both finished
ConcurrentCreatesSeen ==
    /\ SameKeyCreates /\ BothDone
    /\ \A r \in Requests : ~TakenBefore(r)
    /\ reqs[1].status = 409 /\ reqs[2].status = 201

\* C9: every request gets a session of its own, and that session is closed
\* once the request has finished, however it ended; no session is shared
\* and none stays open without a request in flight.
SessionPerRequestClosed ==
    /\ \A r \in Requests :
          /\ reqs[r].pc = "start" <=> reqs[r].db = NOID
          /\ reqs[r].db # NOID => reqs[r].db \in DOMAIN sessions
          /\ reqs[r].pc = "done" => sessions[reqs[r].db] = "closed"
          /\ reqs[r].pc \notin {"start", "done"} => sessions[reqs[r].db] = "open"
    /\ \A r1, r2 \in Requests :
          (r1 # r2 /\ reqs[r1].db # NOID) => reqs[r1].db # reqs[r2].db
    /\ \A s \in DOMAIN sessions :
          sessions[s] = "open" =>
              \E r \in Requests : reqs[r].db = s /\ reqs[r].pc # "done"

\* both requests have finished, the first by an unhandled store exception,
\* and every session that was opened is closed
ErrorPathsSeen ==
    /\ BothDone
    /\ reqs[1].status = 500
    /\ Len(sessions) = 2
    /\ \A s \in DOMAIN sessions : sessions[s] = "closed"

\* C10: a project request racing with DELETE /api/users/{id} never leaves a
\* project stored whose owner_id is the id of no stored user.
OwnerCheckAtomicWithDelete ==
    (\E r \in Requests : reqs[r].op = "delete_user")
        => \A p \in projects : UserExists(users, p.owner_id)

====
